---- MODULE Spec2Model ----
(***************************************************************************)
(* Upgrade features of pip-compile-multi                                   *)
(* (src/pipcompilemulti/features/upgrade.py) and the first command line    *)
(* interface (src/pipcompilemulti/cli_v1.py).                              *)
(*                                                                         *)
(* Python strings are tuples of one-character strings, so that lower(),    *)
(* the substring test '==' in line, split('==', 1) and string              *)
(* concatenation are computed and not assumed.  A Python call that may     *)
(* raise and that may populate the cache returns a record                  *)
(* [exc, cache, val]: the exception that escapes ("None" when none), the   *)
(* cache dictionary after the call, and the returned value.                *)
(***************************************************************************)
EXTENDS Integers, Sequences, FiniteSets, TLC

VARIABLES
    OPTIONS,              \* the global configuration dictionary
    disk,                 \* output file path -> state of the file on disk
    _env_packages_cache,  \* UpgradeSelected._env_packages_cache (a dict)
    first_access,         \* history: what the file held when the entry was populated
    ret,                  \* what the last operation left behind for its caller
    threads,              \* concurrent callers of _env_packages: where each one is
    reads                 \* history: the files each concurrent caller has read

vars == <<OPTIONS, disk, _env_packages_cache, first_access, ret, threads, reads>>

--------------------------------------------------------------------------
(* Bounds *)

\* longest list of requested packages (-P can be supplied multiple times)
MaxNames == 2
\* most lines of an output file handed to the parser
MaxLines == 2
\* longest line of an output file handed to the parser
MaxLineLen == 3

--------------------------------------------------------------------------
(* Strings *)

AsciiLower ==
    [A |-> "a", B |-> "b", C |-> "c", D |-> "d", E |-> "e", F |-> "f",
     G |-> "g", H |-> "h", I |-> "i", J |-> "j", K |-> "k", L |-> "l",
     M |-> "m", N |-> "n", O |-> "o", P |-> "p", Q |-> "q", R |-> "r",
     S |-> "s", T |-> "t", U |-> "u", V |-> "v", W |-> "w", X |-> "x",
     Y |-> "y", Z |-> "z"]

\* str.lower()
lower(s) ==
    [i \in 1..Len(s) |-> IF s[i] \in DOMAIN AsciiLower THEN AsciiLower[s[i]] ELSE s[i]]

\* the positions where the substring '==' starts in s
DelimPositions(s) ==
    {i \in 1..(Len(s) - 1) : s[i] = "=" /\ s[i + 1] = "="}

\* '==' in line
contains_delim(line) == DelimPositions(line) # {}

\* line.rsplit('==', 1)[0]: the text before the last '=='
split_last(line) ==
    IF DelimPositions(line) = {}
    THEN line
    ELSE LET p == CHOOSE i \in DelimPositions(line) :
                      \A j \in DelimPositions(line) : j <= i
         IN  SubSeq(line, 1, p - 1)

\* line.split('==', 1)[0]
split_first(line) ==
    IF DelimPositions(line) = {}
    THEN line
    ELSE LET p == CHOOSE i \in DelimPositions(line) :
                      \A j \in DelimPositions(line) : i <= j
         IN  SubSeq(line, 1, p - 1)

\* the sequences over S of length at most n
RECURSIVE SeqsUpTo(_, _)
SeqsUpTo(S, n) ==
    IF n = 0 THEN {<<>>}
    ELSE LET shorter == SeqsUpTo(S, n - 1)
         IN  shorter \cup {Append(s, x) : s \in shorter, x \in S}

--------------------------------------------------------------------------
(* Environments, output files and requested packages *)

Envs == {"base", "test"}

OutExt == "txt"

\* Controller.compose_output_file_path
compose_output_file_path(env_name) == <<env_name, OutExt>>

Paths == {compose_output_file_path(e) : e \in Envs}

\* a path with no file, and a file that open() refuses
Missing == [kind |-> "missing"]
Unreadable == [kind |-> "unreadable"]

LineFoo == <<"f", "o", "o", "=", "=", "1", ".", "0", "\n">>
LineBarUpper == <<"B", "a", "r", "=", "=", "2", ".", "0", "\n">>
LineComment == <<"#", " ", "v", "i", "a", " ", "-", "r", "\n">>

\* the readable output files of the runs: tuples of lines
OutFiles == { <<LineFoo>>, <<LineComment, LineBarUpper, LineFoo>> }

\* what a run can find at the path of an output file
FileStates == {Missing} \cup {[kind |-> "file", lines |-> f] : f \in OutFiles}

\* the characters of the files handed to the parser
Alphabet == {"A", "="}

ParseLines == SeqsUpTo(Alphabet, MaxLineLen)

\* every file state handed to the parser
ParseFileStates ==
    {Missing, Unreadable}
    \cup {[kind |-> "file", lines |-> f] : f \in SeqsUpTo(ParseLines, MaxLines)}

NameFoo == <<"F", "o", "o">>
NameBar == <<"b", "a", "r">>

\* the names a user passes with -P
ReqNames == {NameFoo, NameBar}

RequestLists == SeqsUpTo(ReqNames, MaxNames)

--------------------------------------------------------------------------
(* Option values *)

PyNone == [t |-> "none"]
PyBool(b) == [t |-> "bool", v |-> b]
PyTuple(s) == [t |-> "tuple", v |-> s]

\* Python truth value of an option value
Truthy(x) ==
    CASE x.t = "none" -> FALSE
      [] x.t = "bool" -> x.v
      [] x.t = "tuple" -> Len(x.v) > 0

\* a flag --upgrade/--no-upgrade that is off unless asked for
UpgradeAllDefaultFalse == PyBool(FALSE)

\* CLICK_OPTION.default of the two features
UpgradeAllDefault == PyBool(TRUE)
UpgradeSelectedDefault == PyNone

\* BaseFeature.value
Value(option_name, default) ==
    IF option_name \in DOMAIN OPTIONS THEN OPTIONS[option_name] ELSE default

--------------------------------------------------------------------------
(* UpgradeSelected *)

NoExc == "None"
IOError == "IOError"

UpgradePackagePrefix ==
    <<"-", "-", "u", "p", "g", "r", "a", "d", "e", "-",
      "p", "a", "c", "k", "a", "g", "e", "=">>

\* open(outfile): the file object, or the IOError it raises
open(outfile) ==
    IF disk[outfile].kind # "file"
    THEN [exc |-> IOError, fp |-> <<>>]
    ELSE [exc |-> NoExc, fp |-> disk[outfile].lines]

\* the set comprehension keeping the names as they are written
pin_names_as_written(fp) ==
    {split_first(fp[i]) : i \in {k \in 1..Len(fp) : contains_delim(fp[k])}}

\* set(line.split('==', 1)[0].lower() for line in fp if '==' in line)
pin_names(fp) ==
    {lower(split_first(fp[i])) : i \in {k \in 1..Len(fp) : contains_delim(fp[k])}}

\* _read_packages without the except clause
_read_packages_uncaught(outfile) ==
    LET f == open(outfile)
    IN  IF f.exc = IOError
        THEN [exc |-> IOError, val |-> {}]
        ELSE [exc |-> NoExc, val |-> pin_names(f.fp)]

\* UpgradeSelected._read_packages: [exc, val]
_read_packages(outfile) ==
    LET f == open(outfile)
    IN  IF f.exc = IOError
        THEN \* except IOError: act as if file is empty
             [exc |-> NoExc, val |-> {}]
        ELSE [exc |-> NoExc, val |-> pin_names(f.fp)]

\* UpgradeSelected._compose_output_file_path
_compose_output_file_path(env_name) == compose_output_file_path(env_name)

\* _env_packages reading the file on every call
_env_packages_uncached(cache, env_name) ==
    LET r == _read_packages(_compose_output_file_path(env_name))
    IN  IF r.exc # NoExc
        THEN [exc |-> r.exc, cache |-> cache, val |-> {}]
        ELSE [exc |-> NoExc,
              cache |-> (env_name :> r.val) @@ cache,
              val |-> r.val]

\* _env_packages making a new dictionary of the entry it has just read
_env_packages_replacing(cache, env_name) ==
    IF env_name \notin DOMAIN cache
    THEN LET r == _read_packages(_compose_output_file_path(env_name))
         IN  [exc |-> r.exc,
              cache |-> IF r.exc = NoExc THEN env_name :> r.val ELSE cache,
              val |-> r.val]
    ELSE [exc |-> NoExc, cache |-> cache, val |-> cache[env_name]]

\* UpgradeSelected._env_packages: [exc, cache, val]
_env_packages(cache, env_name) ==
    IF env_name \notin DOMAIN cache
    THEN LET r == _read_packages(_compose_output_file_path(env_name))
         IN  IF r.exc # NoExc
             THEN [exc |-> r.exc, cache |-> cache, val |-> {}]
             ELSE [exc |-> NoExc,
                   cache |-> cache @@ (env_name :> r.val),
                   val |-> r.val]
    ELSE [exc |-> NoExc, cache |-> cache, val |-> cache[env_name]]

\* has_package comparing the requested name as it was typed
has_package_case_sensitive(cache, env_name, package_name) ==
    LET r == _env_packages(cache, env_name)
    IN  [exc |-> r.exc, cache |-> r.cache,
         val |-> r.exc = NoExc /\ package_name \in r.val]

\* has_package answering from the file as it is now, whatever the entry holds
has_package_from_file(cache, env_name, package_name) ==
    LET r == _env_packages(cache, env_name)
        now == _read_packages(_compose_output_file_path(env_name))
    IN  [exc |-> r.exc, cache |-> r.cache,
         val |-> r.exc = NoExc /\ lower(package_name) \in now.val]

\* UpgradeSelected.has_package: [exc, cache, val]
has_package(cache, env_name, package_name) ==
    LET r == _env_packages(cache, env_name)
    IN  [exc |-> r.exc, cache |-> r.cache,
         val |-> r.exc = NoExc /\ lower(package_name) \in r.val]

\* UpgradeSelected.package_names
package_names ==
    LET value == Value("upgrade_packages", UpgradeSelectedDefault)
    IN  IF Truthy(value) THEN value.v ELSE <<>>

\* UpgradeSelected.active
active == Len(package_names) > 0

\* the list comprehension of UpgradeSelected.pin_options, from the i-th name on
RECURSIVE pin_options_from(_, _, _, _)
pin_options_from(cache, env_name, names, i) ==
    IF i > Len(names)
    THEN [exc |-> NoExc, cache |-> cache, val |-> <<>>]
    ELSE LET h == has_package(cache, env_name, names[i])
         IN  IF h.exc # NoExc
             THEN [exc |-> h.exc, cache |-> h.cache, val |-> <<>>]
             ELSE LET rest == pin_options_from(h.cache, env_name, names, i + 1)
                  IN  [exc |-> rest.exc, cache |-> rest.cache,
                       val |-> IF rest.exc # NoExc THEN <<>>
                               ELSE (IF h.val
                                     THEN <<UpgradePackagePrefix \o names[i]>>
                                     ELSE <<>>) \o rest.val]

\* pin_options loading the entry of env_name before it looks at the request
UpgradeSelected_pin_options_preloading(cache, env_name) ==
    pin_options_from(_env_packages(cache, env_name).cache, env_name,
                     package_names, 1)

\* pin_options without the `if self.has_package(...)` filter
UpgradeSelected_pin_options_unfiltered(cache, env_name) ==
    [exc |-> NoExc,
     cache |-> IF active THEN _env_packages(cache, env_name).cache ELSE cache,
     val |-> [i \in 1..Len(package_names) |->
                 UpgradePackagePrefix \o package_names[i]]]

\* UpgradeSelected.pin_options: [exc, cache, val]
UpgradeSelected_pin_options(cache, env_name) ==
    pin_options_from(cache, env_name, package_names, 1)

\* any() that looks at one element only
any_has_package_first_only(cache, env_name, names, i) ==
    IF i > Len(names)
    THEN [exc |-> NoExc, cache |-> cache, val |-> FALSE]
    ELSE has_package(cache, env_name, names[i])

\* any(has_package(env_name, n) for n in names), from the i-th name on:
\* the generator stops at the first true element
RECURSIVE any_has_package(_, _, _, _)
any_has_package(cache, env_name, names, i) ==
    IF i > Len(names)
    THEN [exc |-> NoExc, cache |-> cache, val |-> FALSE]
    ELSE LET h == has_package(cache, env_name, names[i])
         IN  IF h.exc # NoExc \/ h.val
             THEN h
             ELSE any_has_package(h.cache, env_name, names, i + 1)

\* affected without the early return for the inactive feature
affected_without_early_return(cache, env_name) ==
    any_has_package(cache, env_name, package_names, 1)

\* all(has_package(env_name, n) for n in names), from the i-th name on
RECURSIVE all_have_package(_, _, _, _)
all_have_package(cache, env_name, names, i) ==
    IF i > Len(names)
    THEN [exc |-> NoExc, cache |-> cache, val |-> TRUE]
    ELSE LET h == has_package(cache, env_name, names[i])
         IN  IF h.exc # NoExc \/ ~h.val
             THEN h
             ELSE all_have_package(h.cache, env_name, names, i + 1)

\* affected asking for every requested package instead of any
affected_requires_all(cache, env_name) ==
    IF ~active
    THEN [exc |-> NoExc, cache |-> cache, val |-> TRUE]
    ELSE all_have_package(cache, env_name, package_names, 1)

\* affected that answers from the file and keeps nothing of what it read
affected_without_memo(cache, env_name) ==
    IF ~active
    THEN [exc |-> NoExc, cache |-> cache, val |-> TRUE]
    ELSE [any_has_package(cache, env_name, package_names, 1)
             EXCEPT !.cache = cache]

\* UpgradeSelected.affected: [exc, cache, val]
affected(cache, env_name) ==
    IF ~active
    THEN [exc |-> NoExc, cache |-> cache, val |-> TRUE]
    ELSE any_has_package(cache, env_name, package_names, 1)

\* UpgradeSelected.reset: the new cache
reset == [e \in {} |-> {}]

--------------------------------------------------------------------------
(* UpgradeAll *)

UpgradeArgument == <<"-", "-", "u", "p", "g", "r", "a", "d", "e">>

\* enabled that does not consult UpgradeSelected.active
enabled_ignoring_selected == Value("upgrade", UpgradeAllDefault)

\* UpgradeAll.enabled: the Python value of `self.value and not ...active`
enabled ==
    LET value == Value("upgrade", UpgradeAllDefault)
    IN  IF ~Truthy(value) THEN value ELSE PyBool(~active)

\* UpgradeAll.pin_options deciding on the option value alone
UpgradeAll_pin_options_by_value ==
    IF Truthy(Value("upgrade", UpgradeAllDefault)) THEN <<UpgradeArgument>> ELSE <<>>

\* UpgradeAll.pin_options
UpgradeAll_pin_options ==
    IF Truthy(enabled) THEN <<UpgradeArgument>> ELSE <<>>

--------------------------------------------------------------------------
(* Configuration and the controller *)

\* OPTIONS.update_from_dict: the dictionary after the update
update_from_dict(d) == d @@ OPTIONS

\* Controller.should_compile: [exc, cache, val]
should_compile(cache, env_name) == affected(cache, env_name)

\* the arguments every resolver invocation gets, whatever the features say
StaticArguments == << <<"-", "-", "v", "e", "r", "b", "o", "s", "e">> >>

\* Controller.build_arguments: the static arguments, then the pin_options of
\* every feature in registration order: [exc, cache, val]
build_arguments(cache, env_name) ==
    LET selected == UpgradeSelected_pin_options(cache, env_name)
    IN  [exc |-> selected.exc, cache |-> selected.cache,
         val |-> IF selected.exc # NoExc THEN <<>>
                 ELSE StaticArguments \o UpgradeAll_pin_options \o selected.val]

\* what the external resolver can do to the output file of an environment:
\* succeed and write a file of pin lines, or fail and leave anything behind
ResolverOutcomes ==
    {[status |-> "ok", file |-> [kind |-> "file", lines |-> f]] : f \in OutFiles}
    \cup {[status |-> "failed", file |-> s] : s \in FileStates}

\* first_access after a call that turned the cache from `old` into `new`
Snapshot(old, new) ==
    [e \in DOMAIN new |->
        IF e \in DOMAIN old THEN first_access[e]
        ELSE disk[compose_output_file_path(e)]]

NoSnapshot == [e \in {} |-> Missing]

\* ret of an operation that returns nothing
NoRet == [op |-> "none"]

\* ret of a call `op` that returned r: the exception when one escaped
Returned(op, r) ==
    IF r.exc # NoExc THEN [op |-> "raised", exc |-> r.exc]
    ELSE [op |-> op, val |-> r.val]

\* the threads that call _env_packages concurrently
Workers == {"w1", "w2"}

\* no thread is inside _env_packages
NoThreads == [w \in Workers |-> [pc |-> "idle"]]

\* no thread has read a file
NoReads == [w \in Workers |-> [e \in Envs |-> 0]]

--------------------------------------------------------------------------
(* State machine *)

Init ==
    /\ OPTIONS = [k \in {} |-> PyNone]
    /\ disk \in [Paths -> FileStates]
    /\ _env_packages_cache = reset
    /\ first_access = NoSnapshot
    /\ ret = NoRet
    /\ threads = NoThreads
    /\ reads = NoReads

\* cli_v1.cli: `flag` is what the command line says about --upgrade/--no-upgrade
\* ("absent": neither, click then passes the default of the option),
\* `subcommand` is ctx.invoked_subcommand
Cli(flag, subcommand) ==
    LET upgrade == IF flag = "absent" THEN UpgradeAllDefault
                   ELSE PyBool(flag = "--upgrade")
    IN  /\ OPTIONS' = update_from_dict([upgrade |-> upgrade])
        /\ IF subcommand = "None"
           THEN \* recompile(): a fresh run begins
                /\ _env_packages_cache' = reset
                /\ first_access' = NoSnapshot
           ELSE UNCHANGED <<_env_packages_cache, first_access>>
        /\ ret' = [op |-> "cli", flag |-> flag, subcommand |-> subcommand]
        /\ UNCHANGED disk
        /\ UNCHANGED <<threads, reads>>

\* the configuration supplies the repeatable option upgrade_packages
SetUpgradePackages(names) ==
    /\ OPTIONS' = update_from_dict([upgrade_packages |-> PyTuple(names)])
    /\ ret' = NoRet
    /\ UNCHANGED <<disk, _env_packages_cache, first_access>>
    /\ UNCHANGED <<threads, reads>>

\* the output file at `path` is created, overwritten or deleted
WriteOutfile(path, state) ==
    /\ disk[path] # state
    /\ disk' = [disk EXCEPT ![path] = state]
    /\ ret' = NoRet
    /\ UNCHANGED <<OPTIONS, _env_packages_cache, first_access>>
    /\ UNCHANGED <<threads, reads>>

\* reset() that leaves the dictionary as it is
ResetWithoutClearing ==
    /\ ret' = [op |-> "reset", dropped |-> _env_packages_cache]
    /\ UNCHANGED <<OPTIONS, disk, _env_packages_cache, first_access>>
    /\ UNCHANGED <<threads, reads>>

\* UpgradeSelected.reset()
Reset ==
    /\ _env_packages_cache' = reset
    /\ first_access' = NoSnapshot
    /\ ret' = [op |-> "reset", dropped |-> _env_packages_cache]
    /\ UNCHANGED <<OPTIONS, disk>>
    /\ UNCHANGED <<threads, reads>>

\* a call of one of the three queries of UpgradeSelected that returned r
Query(op, r) ==
    /\ _env_packages_cache' = r.cache
    /\ first_access' = Snapshot(_env_packages_cache, r.cache)
    /\ ret' = Returned(op, r)
    /\ UNCHANGED <<OPTIONS, disk>>
    /\ UNCHANGED <<threads, reads>>

\* UpgradeSelected.has_package(env_name, package_name)
HasPackage(env_name, package_name) ==
    Query("has_package", has_package(_env_packages_cache, env_name, package_name))

\* UpgradeSelected.pin_options(env_name)
PinOptions(env_name) ==
    Query("pin_options", UpgradeSelected_pin_options(_env_packages_cache, env_name))

\* UpgradeSelected.affected(env_name)
Affected(env_name) ==
    Query("affected", affected(_env_packages_cache, env_name))

\* Controller.build_arguments(env_name)
BuildArguments(env_name) ==
    Query("build_arguments", build_arguments(_env_packages_cache, env_name))

\* UpgradeAll.enabled
Enabled ==
    /\ ret' = [op |-> "enabled", val |-> enabled]
    /\ UNCHANGED <<OPTIONS, disk, _env_packages_cache, first_access>>
    /\ UNCHANGED <<threads, reads>>

\* UpgradeAll.pin_options()
UpgradeAllPinOptions ==
    /\ ret' = [op |-> "upgrade_all_pin_options", val |-> UpgradeAll_pin_options]
    /\ UNCHANGED <<OPTIONS, disk, _env_packages_cache, first_access>>
    /\ UNCHANGED <<threads, reads>>

\* the task of a worker for one environment: consult should_compile and,
\* when it is true, invoke the external resolver
Compile(env_name, outcome) ==
    LET sc == should_compile(_env_packages_cache, env_name)
        invoked == sc.exc = NoExc /\ sc.val
        path == compose_output_file_path(env_name)
    IN  /\ _env_packages_cache' = sc.cache
        /\ first_access' = Snapshot(_env_packages_cache, sc.cache)
        /\ disk' = IF invoked THEN [disk EXCEPT ![path] = outcome.file] ELSE disk
        /\ ret' = IF sc.exc # NoExc THEN Returned("should_compile", sc)
                  ELSE [op |-> "compile", env |-> env_name,
                        status |-> IF invoked THEN outcome.status ELSE "skipped"]
        /\ UNCHANGED OPTIONS
        /\ UNCHANGED <<threads, reads>>

Next ==
    \/ \E flag \in {"--upgrade", "--no-upgrade", "absent"},
          subcommand \in {"None", "verify"} : Cli(flag, subcommand)
    \/ \E names \in RequestLists : SetUpgradePackages(names)
    \/ \E path \in Paths, state \in FileStates : WriteOutfile(path, state)
    \/ Reset
    \/ \E e \in Envs, n \in ReqNames : HasPackage(e, n)
    \/ \E e \in Envs : PinOptions(e)
    \/ \E e \in Envs : Affected(e)
    \/ \E e \in Envs : BuildArguments(e)
    \/ Enabled
    \/ UpgradeAllPinOptions
    \/ \E e \in Envs, outcome \in ResolverOutcomes : Compile(e, outcome)

Spec == Init /\ [][Next]_vars

--------------------------------------------------------------------------
(* The parser of output files: the first query of one environment, for
   every output file over Alphabet within MaxLines and MaxLineLen *)

ParseEnv == "base"

ParseName == <<"A">>

InitParse ==
    /\ OPTIONS = [upgrade_packages |-> PyTuple(<<ParseName>>)]
    /\ \E s \in ParseFileStates :
          disk = [p \in Paths |->
                     IF p = compose_output_file_path(ParseEnv) THEN s ELSE Missing]
    /\ _env_packages_cache = reset
    /\ first_access = NoSnapshot
    /\ ret = NoRet
    /\ threads = NoThreads
    /\ reads = NoReads

NextParse ==
    \/ HasPackage(ParseEnv, ParseName)
    \/ PinOptions(ParseEnv)
    \/ Affected(ParseEnv)

SpecParse == InitParse /\ [][NextParse]_vars

--------------------------------------------------------------------------
(* Concurrent callers: the threads of Workers call _env_packages at the same
   time, one statement at a time, while the files stay as they are and
   nobody calls reset() *)

\* a thread calls _env_packages(env_name)
EnvPackagesCall(w, env_name) ==
    /\ threads[w].pc \in {"idle", "done"}
    /\ threads' = [threads EXCEPT ![w] = [pc |-> "check", env_name |-> env_name]]
    /\ UNCHANGED <<OPTIONS, disk, _env_packages_cache, first_access, ret, reads>>

\* the test that puts an empty entry in place before the file is read
EnvPackagesCheckReserving(w) ==
    LET env_name == threads[w].env_name
        miss == env_name \notin DOMAIN _env_packages_cache
    IN  /\ threads[w].pc = "check"
        /\ threads' = [threads EXCEPT ![w].pc = IF miss THEN "read" ELSE "return"]
        /\ _env_packages_cache' =
              IF miss THEN (env_name :> {}) @@ _env_packages_cache
              ELSE _env_packages_cache
        /\ first_access' = Snapshot(_env_packages_cache, _env_packages_cache')
        /\ UNCHANGED <<OPTIONS, disk, ret, reads>>

\* the test that never finds an entry
EnvPackagesCheckAlwaysMiss(w) ==
    /\ threads[w].pc = "check"
    /\ threads' = [threads EXCEPT ![w].pc = "read"]
    /\ UNCHANGED <<OPTIONS, disk, _env_packages_cache, first_access, ret, reads>>

\* `if env_name not in self._env_packages_cache:`
EnvPackagesCheck(w) ==
    /\ threads[w].pc = "check"
    /\ threads' = [threads EXCEPT ![w].pc =
                      IF threads[w].env_name \notin DOMAIN _env_packages_cache
                      THEN "read" ELSE "return"]
    /\ UNCHANGED <<OPTIONS, disk, _env_packages_cache, first_access, ret, reads>>

\* `self._read_packages(self._compose_output_file_path(env_name))`
EnvPackagesRead(w) ==
    LET env_name == threads[w].env_name
        r == _read_packages(_compose_output_file_path(env_name))
    IN  /\ threads[w].pc = "read"
        /\ threads' = [threads EXCEPT ![w] =
                          [pc |-> "store", env_name |-> env_name, packages |-> r.val]]
        /\ reads' = [reads EXCEPT ![w][env_name] = @ + 1]
        /\ UNCHANGED <<OPTIONS, disk, _env_packages_cache, first_access, ret>>

\* `self._env_packages_cache[env_name] = ...`
EnvPackagesStore(w) ==
    LET env_name == threads[w].env_name
    IN  /\ threads[w].pc = "store"
        /\ _env_packages_cache' =
              (env_name :> threads[w].packages) @@ _env_packages_cache
        /\ first_access' = Snapshot(_env_packages_cache, _env_packages_cache')
        /\ threads' = [threads EXCEPT ![w] = [pc |-> "return", env_name |-> env_name]]
        /\ UNCHANGED <<OPTIONS, disk, ret, reads>>

\* `return self._env_packages_cache[env_name]`
EnvPackagesReturn(w) ==
    LET env_name == threads[w].env_name
    IN  /\ threads[w].pc = "return"
        /\ threads' = [threads EXCEPT ![w] =
                          [pc |-> "done", env_name |-> env_name,
                           result |-> _env_packages_cache[env_name]]]
        /\ UNCHANGED <<OPTIONS, disk, _env_packages_cache, first_access, ret, reads>>

NextRace ==
    \/ \E w \in Workers, e \in Envs : EnvPackagesCall(w, e)
    \/ \E w \in Workers : EnvPackagesCheck(w)
    \/ \E w \in Workers : EnvPackagesRead(w)
    \/ \E w \in Workers : EnvPackagesStore(w)
    \/ \E w \in Workers : EnvPackagesReturn(w)

SpecRace == Init /\ [][NextRace]_vars

--------------------------------------------------------------------------
(* Letter case: has_package for every letter-case variant of the requested
   names, over output files that spell the same packages in different case *)

\* the characters that differ from c in letter case at most
CaseOf(c) ==
    {c} \cup {u \in DOMAIN AsciiLower : lower(<<u>>) = lower(<<c>>)}
        \cup {lower(<<c>>)[1]}

\* the strings that differ from s in letter case at most
RECURSIVE CaseVariants(_)
CaseVariants(s) ==
    IF s = <<>> THEN {<<>>}
    ELSE {<<c>> \o v : c \in CaseOf(Head(s)), v \in CaseVariants(Tail(s))}

\* the pin lines that spell the package name of `line` in another case
LineVariants(line) ==
    IF ~contains_delim(line) THEN {line}
    ELSE LET name == split_first(line)
         IN  {v \o SubSeq(line, Len(name) + 1, Len(line)) : v \in CaseVariants(name)}

\* the files that spell the package names of f in another case
RECURSIVE FileVariants(_)
FileVariants(f) ==
    IF f = <<>> THEN {<<>>}
    ELSE {<<l>> \o g : l \in LineVariants(Head(f)), g \in FileVariants(Tail(f))}

\* the requested names in every letter case
CaseNames == UNION {CaseVariants(n) : n \in ReqNames}

CaseEnv == "base"

\* every environment other than CaseEnv has an output file of OutFiles, and
\* CaseEnv has the same file with its package names in some letter case
InitCase ==
    /\ OPTIONS = [k \in {} |-> PyNone]
    /\ \E f \in OutFiles : \E g \in FileVariants(f) :
          disk = [p \in Paths |->
                     [kind |-> "file",
                      lines |-> IF p = compose_output_file_path(CaseEnv)
                                THEN g ELSE f]]
    /\ _env_packages_cache = reset
    /\ first_access = NoSnapshot
    /\ ret = NoRet
    /\ threads = NoThreads
    /\ reads = NoReads

NextCase == \E e \in Envs, n \in CaseNames : HasPackage(e, n)

SpecCase == InitCase /\ [][NextCase]_vars

--------------------------------------------------------------------------
(* Properties *)

\* the packages pinned in the output file of e, as seen by the cache
Pinned(e) == _env_packages(_env_packages_cache, e).val

\* the positions of the requested packages that are pinned in e,
\* compared case-insensitively
PinnedRequests(e) ==
    {i \in 1..Len(package_names) :
        \E q \in Pinned(e) : lower(package_names[i]) = lower(q)}

\* C1: when selective upgrade is active, affected(E) is true iff at least one
\* requested package name, compared case-insensitively, is among the packages
\* pinned in E's output file as seen by the cache.
C1_AffectedIffRequestedPinned ==
    active =>
        \A e \in Envs :
            LET r == affected(_env_packages_cache, e)
            IN  r.exc = NoExc /\ (r.val <=> PinnedRequests(e) # {})

\* the spec's example: one populated environment is affected, another is not
C1_Witness ==
    /\ active
    /\ ret.op = "affected"
    /\ \E e1, e2 \in DOMAIN _env_packages_cache :
          /\ affected(_env_packages_cache, e1).val
          /\ ~affected(_env_packages_cache, e2).val
          /\ first_access[e2].kind = "file"

\* the k-th smallest element of the set of positions I
KthOf(I, k) == CHOOSE i \in I : Cardinality({j \in I : j <= i}) = k

\* C2: pin_options(E) has exactly one '--upgrade-package=<name>' argument for
\* each requested package that is pinned in E, in the order of the request,
\* and nothing for a requested package that is not pinned in E.
C2_PinOptionsPinnedRequestsInOrder ==
    \A e \in Envs :
        LET r == UpgradeSelected_pin_options(_env_packages_cache, e)
            I == PinnedRequests(e)
        IN  /\ r.exc = NoExc
            /\ Len(r.val) = Cardinality(I)
            /\ \A k \in 1..Len(r.val) :
                  r.val[k] = UpgradePackagePrefix \o package_names[KthOf(I, k)]

\* two different requested packages, both pinned in one environment and only
\* the second of them pinned in another
C2_Witness ==
    /\ package_names = <<NameBar, NameFoo>>
    /\ ret.op = "pin_options"
    /\ \E e1, e2 \in DOMAIN _env_packages_cache :
          /\ UpgradeSelected_pin_options(_env_packages_cache, e1).val
                = <<UpgradePackagePrefix \o NameBar, UpgradePackagePrefix \o NameFoo>>
          /\ UpgradeSelected_pin_options(_env_packages_cache, e2).val
                = <<UpgradePackagePrefix \o NameFoo>>

\* the value of the global upgrade flag
UpgradeFlag == Truthy(Value("upgrade", UpgradeAllDefault))

\* C3: UpgradeAll.enabled is true iff the global upgrade flag is true and
\* UpgradeSelected.active is false; when the list of requested packages goes
\* from empty to non-empty while the flag stays true, enabled becomes false.
C3_EnabledIffFlagAndNotActive ==
    /\ [](Truthy(enabled) <=> (UpgradeFlag /\ ~active))
    /\ [][(UpgradeFlag /\ ~active /\ UpgradeFlag' /\ active')
              => (Truthy(enabled) /\ ~Truthy(enabled'))]_vars

\* enabled was read and was false although the flag is true
C3_Witness ==
    /\ ret.op = "enabled"
    /\ ~Truthy(ret.val)
    /\ UpgradeFlag
    /\ active

\* C4: with no requested package, affected(E) is true for every environment,
\* whatever its output file holds and whether or not the file exists.
C4_InactiveAffectsEveryEnvironment ==
    ~active =>
        \A e \in Envs :
            LET r == affected(_env_packages_cache, e)
            IN  r.exc = NoExc /\ r.val

\* affected() returned true with no request, one output file missing and another present
C4_Witness ==
    /\ ~active
    /\ ret.op = "affected"
    /\ ret.val
    /\ \E e1, e2 \in Envs :
          /\ disk[compose_output_file_path(e1)] = Missing
          /\ disk[compose_output_file_path(e2)].kind = "file"

\* the state of the output file of e that a query of e reads or has read
ReadState(e) ==
    IF e \in DOMAIN _env_packages_cache THEN first_access[e]
    ELSE disk[compose_output_file_path(e)]

\* C5: when the output file of E does not exist or cannot be read, querying
\* the packages pinned in E returns the empty set and raises nothing, and the
\* entry is memoized as the empty set.
C5_MissingOutfileIsEmptySet ==
    /\ ret.op # "raised"
    /\ \A e \in Envs :
          LET r == _env_packages(_env_packages_cache, e)
          IN  /\ r.exc = NoExc
              /\ ReadState(e).kind # "file" =>
                    /\ r.val = {}
                    /\ e \in DOMAIN r.cache
                    /\ r.cache[e] = {}

\* has_package read an unreadable file, returned false and memoized the empty set
C5_Witness ==
    /\ ret.op = "has_package"
    /\ ret.val = FALSE
    /\ ParseEnv \in DOMAIN _env_packages_cache
    /\ first_access[ParseEnv] = Unreadable
    /\ _env_packages_cache[ParseEnv] = {}

\* line contains the delimiter '=='
IsPinLine(line) ==
    \E i \in 1..(Len(line) - 1) : line[i] = "=" /\ line[i + 1] = "="

\* n is the text before the first '==' of line, lower-cased
IsNameOf(n, line) ==
    \E k \in 0..(Len(line) - 2) :
        /\ line[k + 1] = "=" /\ line[k + 2] = "="
        /\ \A j \in 1..k : ~(line[j] = "=" /\ line[j + 1] = "=")
        /\ Len(n) = k
        /\ \A j \in 1..k : n[j] = IF line[j] = "A" THEN "a" ELSE line[j]

\* C6: the populated entry of a file is exactly the set of the names of its
\* pin lines (the text before the first '==', lower-cased); lines without
\* '==' contribute nothing and the order of the lines does not matter.
C6_EntryIsLowercasedPinNames ==
    \A e \in DOMAIN _env_packages_cache :
        first_access[e].kind = "file" =>
            LET lines == first_access[e].lines
                entry == _env_packages_cache[e]
            IN  /\ \A n \in entry :
                      \E i \in 1..Len(lines) :
                          IsPinLine(lines[i]) /\ IsNameOf(n, lines[i])
                /\ \A i \in 1..Len(lines) :
                      IsPinLine(lines[i]) =>
                          \E n \in entry : IsNameOf(n, lines[i])
                /\ \A n \in entry : \A j \in 1..Len(n) : n[j] # "A"
                /\ pin_names(SelectSeq(lines, IsPinLine)) = entry
                /\ \A p \in Permutations(1..Len(lines)) :
                      pin_names([i \in 1..Len(lines) |-> lines[p[i]]]) = entry

\* a line without '==' before a pin line whose upper-case name has two '==' after it
C6_Witness ==
    /\ ParseEnv \in DOMAIN _env_packages_cache
    /\ first_access[ParseEnv] =
          [kind |-> "file", lines |-> << <<"=", "A", "=">>, <<"A", "=", "=">> >>]
    /\ _env_packages_cache[ParseEnv] = { <<"a">> }

\* the names a read of the output file of e would find on disk now
FreshNames(e) ==
    LET f == disk[compose_output_file_path(e)]
    IN  IF f.kind = "file" THEN pin_names(f.lines) ELSE {}

\* the names a read of the file state f finds
NamesOf(f) == IF f.kind = "file" THEN pin_names(f.lines) ELSE {}

\* the last operation called reset()
AfterReset == ret.op = "reset" \/ (ret.op = "cli" /\ ret.subcommand = "None")

\* C7: after reset() no entry is left, and a query for an environment without
\* an entry reads the output file as it is on disk now, so that the answer
\* comes from the new content and not from an entry memoized before the reset.
C7_ResetForcesReread ==
    /\ AfterReset => DOMAIN _env_packages_cache = {}
    /\ \A e \in Envs :
          e \notin DOMAIN _env_packages_cache =>
              /\ _env_packages(_env_packages_cache, e).val = FreshNames(e)
              /\ \A n \in ReqNames :
                    has_package(_env_packages_cache, e, n).val
                        <=> lower(n) \in FreshNames(e)

\* reset() dropped an entry that differs from what the file holds now, and
\* the next has_package answers from the file
C7_Witness ==
    /\ ret.op = "reset"
    /\ \E e \in DOMAIN ret.dropped :
          /\ ret.dropped[e] # FreshNames(e)
          /\ NameBar \notin ret.dropped[e]
          /\ has_package(_env_packages_cache, e, NameBar).val

\* C8: a populated entry holds what the output file held at first access, the
\* queries answer from it whatever the file holds now, and no step other than
\* reset() removes or changes it, a resolver run or failure included.
C8_EntryIsSnapshotUntilReset ==
    /\ [](\A e \in DOMAIN _env_packages_cache :
             /\ _env_packages_cache[e] = NamesOf(first_access[e])
             /\ _env_packages(_env_packages_cache, e).val = NamesOf(first_access[e])
             /\ \A n \in ReqNames :
                   LET h == has_package(_env_packages_cache, e, n)
                   IN  /\ h.val <=> lower(n) \in NamesOf(first_access[e])
                       /\ h.cache = _env_packages_cache
             /\ UpgradeSelected_pin_options(_env_packages_cache, e).cache
                   = _env_packages_cache
             /\ affected(_env_packages_cache, e).cache = _env_packages_cache)
    /\ [][\A e \in DOMAIN _env_packages_cache :
             ~AfterReset' =>
                /\ e \in DOMAIN _env_packages_cache'
                /\ _env_packages_cache'[e] = _env_packages_cache[e]
                /\ first_access'[e] = first_access[e]]_vars

\* has_package returned true while no output file exists any more
C8_Witness ==
    /\ ret.op = "has_package"
    /\ ret.val = TRUE
    /\ \A p \in Paths : disk[p] = Missing

\* the command line had neither --upgrade nor --no-upgrade
UpgradeNotSupplied == ret.op = "cli" /\ ret.flag = "absent"

\* the configuration has no key for the option upgrade
UpgradeNotConfigured == "upgrade" \notin DOMAIN OPTIONS

UpgradePackagesNotSupplied == "upgrade_packages" \notin DOMAIN OPTIONS

\* UpgradeSelected is inert: not active, and no argument for any environment
SelectedInert ==
    /\ ~active
    /\ package_names = <<>>
    /\ \A e \in Envs :
          UpgradeSelected_pin_options(_env_packages_cache, e)
              = [exc |-> NoExc, cache |-> _env_packages_cache, val |-> <<>>]

\* C9 as claimed: every Feature whose option is not supplied is inert (no
\* extra argument, policy disabled), UpgradeAll as well as UpgradeSelected.
C9_Original ==
    /\ UpgradePackagesNotSupplied => SelectedInert
    /\ UpgradeNotSupplied =>
          (~Truthy(enabled) /\ UpgradeAll_pin_options = <<>>)

\* C9 amended: no Feature fails when its option is not supplied, and it takes
\* the default of its option: UpgradeSelected is inert, UpgradeAll (default
\* true) is enabled and contributes '--upgrade' unless selective upgrade is
\* active.
C9_AbsentOptionTakesDefault ==
    /\ ret.op # "raised"
    /\ UpgradePackagesNotSupplied => SelectedInert
    /\ (UpgradeNotSupplied \/ UpgradeNotConfigured) =>
          /\ Truthy(enabled) <=> ~active
          /\ UpgradeAll_pin_options
                = IF active THEN <<>> ELSE <<UpgradeArgument>>

\* the command line named no upgrade option, and UpgradeAll is enabled with
\* '--upgrade' as its argument while UpgradeSelected contributes nothing
C9_Witness ==
    /\ UpgradeNotSupplied
    /\ UpgradePackagesNotSupplied
    /\ Truthy(enabled)
    /\ UpgradeAll_pin_options = <<UpgradeArgument>>
    /\ \A e \in Envs :
          UpgradeSelected_pin_options(_env_packages_cache, e).val = <<>>

--------------------------------------------------------------------------
(* Composed resolver arguments *)

\* the arguments a call of build_arguments for e would return now
Arguments(e) == build_arguments(_env_packages_cache, e).val

\* a first call of build_arguments for e has been made since the last reset:
\* it consulted the entry of e when packages were requested
Built(e) == active => e \in DOMAIN _env_packages_cache

IsUpgradePackageArgument(arg) ==
    /\ Len(arg) >= Len(UpgradePackagePrefix)
    /\ SubSeq(arg, 1, Len(UpgradePackagePrefix)) = UpgradePackagePrefix

\* the arguments made from the configuration and the entry of e alone
ArgumentsOfEntry(e) ==
    LET kept == IF active
                THEN SelectSeq(package_names,
                               LAMBDA n : lower(n) \in _env_packages_cache[e])
                ELSE <<>>
    IN  StaticArguments \o UpgradeAll_pin_options
            \o [k \in 1..Len(kept) |-> UpgradePackagePrefix \o kept[k]]

\* C11: a call of build_arguments for an environment returns what an
\* immediately repeated call returns; once a call has been made the result
\* is a function of the configuration and of the entry of the environment
\* alone, whatever the output file holds by now; and the entry is kept
\* across every step but a reset. Repeated calls without a reset and without
\* a configuration change between them therefore return identical sequences,
\* also when the output file is rewritten between the calls.
C11_BuildArgumentsRepeatable ==
    /\ [](\A e \in Envs :
            LET r == build_arguments(_env_packages_cache, e)
            IN  /\ r.exc = NoExc
                /\ build_arguments(r.cache, e).val = r.val
                /\ Built(e) => r.val = ArgumentsOfEntry(e))
    /\ [][\A e \in DOMAIN _env_packages_cache :
            ~AfterReset' =>
                /\ e \in DOMAIN _env_packages_cache'
                /\ _env_packages_cache'[e] = _env_packages_cache[e]]_vars

\* build_arguments returned an --upgrade-package argument although no
\* output file exists any more
C11_Witness ==
    /\ ret.op = "build_arguments"
    /\ \E k \in DOMAIN ret.val : IsUpgradePackageArgument(ret.val[k])
    /\ \A p \in Paths : disk[p] = Missing

\* C13: while packages are requested UpgradeAll contributes nothing: the
\* composed arguments never hold --upgrade next to an --upgrade-package
\* argument, and hold no --upgrade at all, whatever the --upgrade flag is
C13_NoUpgradeWhileSelected ==
    \A e \in Envs :
        LET args == Arguments(e)
            upgrade == \E k \in DOMAIN args : args[k] = UpgradeArgument
            selected == \E k \in DOMAIN args : IsUpgradePackageArgument(args[k])
        IN  /\ active => UpgradeAll_pin_options = <<>> /\ ~upgrade
            /\ ~(upgrade /\ selected)

\* with --upgrade on and packages requested, build_arguments returned an
\* --upgrade-package argument and no --upgrade
C13_Witness ==
    /\ Truthy(Value("upgrade", UpgradeAllDefault))
    /\ "upgrade" \in DOMAIN OPTIONS
    /\ active
    /\ ret.op = "build_arguments"
    /\ \E k \in DOMAIN ret.val : IsUpgradePackageArgument(ret.val[k])
    /\ \A k \in DOMAIN ret.val : ret.val[k] # UpgradeArgument

--------------------------------------------------------------------------
(* Frame of the cache *)

\* a step that is the call `op` returning r
StepOf(op, r) ==
    /\ ret'.op = op
    /\ ret'.val = r.val
    /\ _env_packages_cache' = r.cache
    /\ UNCHANGED <<OPTIONS, disk>>

\* a step that is a call of one of the three queries for e
QueryStep(e) ==
    \/ \E n \in ReqNames :
          StepOf("has_package", has_package(_env_packages_cache, e, n))
    \/ StepOf("pin_options", UpgradeSelected_pin_options(_env_packages_cache, e))
    \/ StepOf("affected", affected(_env_packages_cache, e))

\* C17: a query for an environment (has_package, pin_options, affected) adds
\* at most the entry of that environment and leaves every other entry as it
\* was; an entry is removed or replaced only by a reset, and a reset leaves
\* no entry at all
C17_QueryTouchesOwnEntryOnly ==
    /\ [][\A e \in Envs :
            QueryStep(e) =>
                /\ DOMAIN _env_packages_cache' \subseteq
                      DOMAIN _env_packages_cache \cup {e}
                /\ \A o \in DOMAIN _env_packages_cache :
                      /\ o \in DOMAIN _env_packages_cache'
                      /\ _env_packages_cache'[o] = _env_packages_cache[o]]_vars
    /\ [][(\E o \in DOMAIN _env_packages_cache :
                \/ o \notin DOMAIN _env_packages_cache'
                \/ _env_packages_cache'[o] # _env_packages_cache[o])
            => AfterReset' /\ DOMAIN _env_packages_cache' = {}]_vars

\* a query has added the entry of the second environment, and the entry of
\* the first one, made from a different file, is still there
C17_Witness ==
    /\ ret.op \in {"has_package", "pin_options", "affected"}
    /\ DOMAIN _env_packages_cache = Envs
    /\ \E e, o \in Envs : _env_packages_cache[e] # _env_packages_cache[o]

--------------------------------------------------------------------------
(* affected and pin_options *)

\* C18: while packages are requested, an environment is affected exactly
\* when pin_options returns at least one argument for it
C18_AffectedIffPinOptionsNonEmpty ==
    active =>
        \A e \in Envs :
            LET a == affected(_env_packages_cache, e)
                p == UpgradeSelected_pin_options(_env_packages_cache, e)
            IN  /\ a.exc = NoExc /\ p.exc = NoExc
                /\ a.val <=> Len(p.val) > 0

\* pin_options returned two arguments for an affected environment while
\* the other environment, which has a file, is not affected
C18_Witness ==
    /\ active
    /\ ret.op = "pin_options"
    /\ Len(ret.val) = 2
    /\ \E e \in Envs :
          /\ ~affected(_env_packages_cache, e).val
          /\ UpgradeSelected_pin_options(_env_packages_cache, e).val = <<>>
          /\ disk[compose_output_file_path(e)].kind = "file"

\* C19: while no package is requested, affected, pin_options and what the
\* controller makes of them (should_compile, build_arguments) answer without
\* reading an output file: they return the same whatever is on disk and leave
\* the cache as it is, so a run without requested packages populates no entry
C19_InactiveTouchesNoFile ==
    ~active =>
        \A e \in Envs :
            /\ affected(_env_packages_cache, e)
                  = [exc |-> NoExc, cache |-> _env_packages_cache, val |-> TRUE]
            /\ UpgradeSelected_pin_options(_env_packages_cache, e)
                  = [exc |-> NoExc, cache |-> _env_packages_cache, val |-> <<>>]
            /\ should_compile(_env_packages_cache, e).cache = _env_packages_cache
            /\ build_arguments(_env_packages_cache, e).cache = _env_packages_cache

\* with no package requested and a file for every environment, pin_options
\* returned nothing and the cache has no entry
C19_Witness ==
    /\ ~active
    /\ ret.op = "pin_options"
    /\ ret.val = <<>>
    /\ DOMAIN _env_packages_cache = {}
    /\ \A p \in Paths : disk[p].kind = "file"

--------------------------------------------------------------------------
(* The cache after a resolver run *)

\* the resolver has just run for an environment and has written its file
ResolverWrote == ret.op = "compile" /\ ret.status = "ok"

\* C16 as stated: once the resolver has written the output file of an
\* environment, the entry of the environment is gone, and the next query
\* reads the file just written
C16_Original ==
    ResolverWrote =>
        /\ ret.env \notin DOMAIN _env_packages_cache
        /\ Pinned(ret.env) = FreshNames(ret.env)

\* C16: once the resolver has written the output file of an environment,
\* the entry of the environment is left as it is: while packages are
\* requested the entry is there, it is what should_compile read before the
\* resolver ran, and the next query answers from it and not from the file
\* just written
C16_EntryKeptAfterResolver ==
    ResolverWrote =>
        /\ active => ret.env \in DOMAIN _env_packages_cache
        /\ ret.env \in DOMAIN _env_packages_cache =>
              /\ _env_packages_cache[ret.env] = NamesOf(first_access[ret.env])
              /\ Pinned(ret.env) = NamesOf(first_access[ret.env])
              /\ _env_packages(_env_packages_cache, ret.env).cache
                    = _env_packages_cache

\* the resolver has written a file with other packages than the entry holds
C16_Witness ==
    /\ ResolverWrote
    /\ active
    /\ ret.env \in DOMAIN _env_packages_cache
    /\ _env_packages_cache[ret.env] # FreshNames(ret.env)
    /\ affected(_env_packages_cache, ret.env).val

--------------------------------------------------------------------------
(* Letter case *)

\* C12: has_package gives the same answer for every letter-case variant of
\* the requested name and for every letter-case variant of the package name
\* written in the output file (the environments hold the same packages in
\* different case), and a query for an environment without an entry makes
\* the entry from the file
C12_HasPackageIgnoresCase ==
    \A n \in ReqNames : \A v \in CaseVariants(n), e \in Envs :
        LET h == has_package(_env_packages_cache, e, v)
        IN  /\ h.exc = NoExc
            /\ \A o \in Envs : has_package(_env_packages_cache, o, n).val = h.val
            /\ e \notin DOMAIN _env_packages_cache =>
                  /\ DOMAIN h.cache = DOMAIN _env_packages_cache \cup {e}
                  /\ h.cache[e] = FreshNames(e)

\* a query found a package in both environments, one of which spells the
\* package in capitals, and both have an entry now
C12_Witness ==
    /\ ret.op = "has_package"
    /\ ret.val
    /\ DOMAIN _env_packages_cache = Envs
    /\ \E i \in DOMAIN disk[compose_output_file_path(CaseEnv)].lines :
          split_first(disk[compose_output_file_path(CaseEnv)].lines[i])
              = <<"F", "O", "O">>
    /\ \A e, o \in Envs :
          \A v \in CaseVariants(NameFoo) :
              /\ has_package(_env_packages_cache, e, v).val
              /\ _env_packages_cache[e] = _env_packages_cache[o]

--------------------------------------------------------------------------
(* Concurrent callers *)

\* the threads inside _env_packages for e that found no entry and have not
\* stored theirs yet
Populating(e) ==
    {w \in Workers : threads[w].pc \in {"read", "store"} /\ threads[w].env_name = e}

\* how often the file of e has been read
RECURSIVE ReadsOf(_, _)
ReadsOf(e, W) ==
    IF W = {} THEN 0
    ELSE LET w == CHOOSE x \in W : TRUE
         IN  reads[w][e] + ReadsOf(e, W \ {w})

\* C14 as stated: a per-environment exclusion guards the lazy population,
\* so at most one thread at a time is populating the entry of an
\* environment, and the file of an environment is read at most once
C14_Original ==
    \A e \in Envs :
        /\ Cardinality(Populating(e)) <= 1
        /\ ReadsOf(e, Workers) <= 1

\* C14: nothing excludes concurrent callers from one another: every thread
\* that found no entry reads the file, so the file of an environment is read
\* at most once by each thread, and a thread that finds the entry goes on to
\* return it without reading
C14_ReadAtMostOncePerThread ==
    /\ [](\A w \in Workers, e \in Envs : reads[w][e] <= 1)
    /\ [][\A w \in Workers :
            (/\ threads[w].pc = "check"
             /\ threads[w].env_name \in DOMAIN _env_packages_cache
             /\ threads'[w] # threads[w])
                => threads'[w].pc = "return" /\ reads' = reads]_vars

\* two threads have read the file of the same environment, one after the
\* other found no entry
C14_Witness ==
    \E e \in Envs :
        /\ ReadsOf(e, Workers) = Cardinality(Workers)
        /\ \A w \in Workers : reads[w][e] = 1
        /\ disk[compose_output_file_path(e)].kind = "file"

\* C15: whatever the interleaving, every thread that has returned from
\* _env_packages for an environment got the set of packages its output file
\* pins, which is also what the entry holds; so two concurrent callers get
\* the same set and the entry stored last equals it, without any lock
C15_RacingReadersAgree ==
    /\ \A w \in Workers :
          threads[w].pc = "done" =>
              /\ threads[w].result = FreshNames(threads[w].env_name)
              /\ _env_packages_cache[threads[w].env_name] = threads[w].result
    /\ \A w, x \in Workers :
          (/\ threads[w].pc = "done" /\ threads[x].pc = "done"
           /\ threads[w].env_name = threads[x].env_name)
              => threads[w].result = threads[x].result
    /\ \A e \in DOMAIN _env_packages_cache :
          _env_packages_cache[e] = FreshNames(e)

\* both threads have read the same file, both have stored and returned, and
\* they hold the same non-empty set
C15_Witness ==
    \E e \in Envs :
        /\ \A w \in Workers :
              /\ reads[w][e] = 1
              /\ threads[w].pc = "done"
              /\ threads[w].env_name = e
              /\ threads[w].result = _env_packages_cache[e]
        /\ _env_packages_cache[e] # {}

====
